---- MODULE Spec2Model ----
(***************************************************************************)
(* Model of TrpcService (apps/server/src/trpc/trpc.service.ts): the        *)
(* synchronization orchestrator of wewe-rss.                               *)
(*                                                                         *)
(* The service runs on a single-threaded event loop.  An action of this    *)
(* module is one run-to-completion segment of a handler: the code from a   *)
(* call, or from the resolution of an await, up to the next await or to    *)
(* the return.  Segments of different invocations interleave freely.       *)
(***************************************************************************)
EXTENDS Integers, Sequences, FiniteSets, TLC

(***************************************************************************)
(* Bounds of the model and program constants.                              *)
(***************************************************************************)
\* page size of the upstream API (imported from @server/constants)
defaultCount == 2
\* iteration budget of one history crawl (`let i = 1e3` in the source)
MaxCrawlIterations == 2
\* rounds of one bulk refresh (`const maxRounds = 8`)
maxRounds == 8
\* retries of getMpArticles after the first attempt (`retryCount = 3`)
defaultRetryCount == 3
\* the wall clock (epoch seconds) runs from 1 to MaxTime
MaxTime == 2

FeedIds == {"A", "B"}
\* source ids a caller may pass; "" is the stop request of getHistoryMpArticles
MpIds == FeedIds \cup {""}
AccountIds == {"u1", "u2"}
ArticleIds == 1..defaultCount
Titles == {"t1", "t2"}
PicUrls == {"p1", "p2"}
PublishTimes == {1, 2}
CrawlProcs == {"h1", "h2"}
BulkProcs == {"b1", "b2"}

ENABLE == "enable"
INVALID == "invalid"
DISABLE == "disable"

NoRow == [absent |-> TRUE]
\* the value of blockedAccountsMap.get(day) for a day without list
NoList == <<"nolist">>
Days == {"d1"}
\* markers of the message of a failed upstream call ("" stands for any other
\* message, and for a failure without response)
Markers == {"WeReadError401", "WeReadError429", "WeReadError400", ""}
NoAccount == "none"
NoResult == [message |-> "none"]

(***************************************************************************)
(* State.                                                                  *)
(***************************************************************************)
VARIABLES
    \* ---- storage collaborator (prismaService) and environment
    accounts,       \* account id -> status
    feeds,          \* feed id -> [hasHistory, syncTime, status]
    articles,       \* article id -> row [mpId, title, picUrl, publishTime] or NoRow
    dbType,         \* configuration 'database'.type
    now,            \* Math.floor(Date.now() / 1e3)
    \* ---- the daily quarantine (module-level blockedAccountsMap)
    blockedAccountsMap,     \* day -> list of account ids, or NoList
    today,          \* getTodayDate()
    \* ---- one refreshMpArticlesAndUpdateFeed call at a time
    rpc,            \* position of the call
    rmp,            \* its mpId argument
    retryCount,     \* retryCount of the getMpArticles attempt in progress
    rdisabled,      \* disabledAccounts read by getAvailableAccount
    raccount,       \* the account of the attempt (the xid header)
    rmarker,        \* marker in the message of the failed upstream call
    rarticles,      \* the page getMpArticles returned
    rsync,          \* syncTime computed for feed.update
    rresult,        \* what the latest call returned
    rcause,         \* where the exception that ended the latest call came from
    rstart,         \* the time of the call
    rbefore,        \* the feed's row at the time of the call
    rattempts,      \* upstream requests sent by the getMpArticles of the call
                    \* in progress, or by the latest call before its account
                    \* selection found no account
    rerr,           \* the error the catch block of getMpArticles caught in the
                    \* attempt before the one in progress, or the error
                    \* getMpArticles threw to the latest call ("none": no error)
    \* ---- getHistoryMpArticles
    inProgressHistoryMp,    \* the shared crawl record [id, page]
    hpc,            \* crawl invocation -> position
    hmp,            \* crawl invocation -> its mpId argument
    hi,             \* crawl invocation -> loop counter i
    hpage,          \* crawl invocation -> page passed to the refresh in flight
    lastCall,       \* argument of the latest getHistoryMpArticles call
    \* ---- history of the crawls
    hcalls,         \* crawl invocation -> refresh calls it has made
    hexit,          \* why the latest step ended an invocation ("none" if
                    \* it ended none)
    hlog,           \* whether the behaviour keeps the two records below
                    \* (fixed by the initial state)
    hfail,          \* crawl invocation -> the refresh it made before the
                    \* delay in progress returned a failure-shaped result
    lastSame,       \* the latest step was a call that named the id the
                    \* record then held
    \* ---- refreshAllMpArticlesAndUpdateFeed
    isRefreshAllMpArticlesRunning,
    bpc,            \* bulk invocation -> position
    allMps,         \* bulk invocation -> ids of the feeds loaded at the start
    feedsToUpdate,  \* bulk invocation -> feeds of the current round
    bidx,           \* bulk invocation -> index in feedsToUpdate
    round,          \* bulk invocation -> round number
    currentRoundFailedFeeds,
    finalFailedFeeds,
    \* ---- history of the bulk refresh in progress, or of the latest one
    bresult,        \* what the latest return of a call returned (NoResult
                    \* from the start of a run until a call returns)
    bloaded,        \* the feeds the run loaded at its start
    bcalls,         \* feed id -> refresh calls made in the run
    bfirstOk        \* feed id -> first round whose refresh of the feed had no
                    \* error and some article (0: none so far)

storeVars == <<accounts, feeds, articles, dbType, now>>
crawlVars == <<inProgressHistoryMp, hpc, hmp, hi, hpage, lastCall, hcalls,
               hfail, hexit, lastSame, hlog>>
ledgerVars == <<blockedAccountsMap, today>>
refreshVars == <<rpc, rmp, retryCount, rdisabled, raccount, rmarker, rarticles,
                 rsync, rresult, rcause, rstart, rbefore, rattempts, rerr>>
bulkVars == <<isRefreshAllMpArticlesRunning, bpc, allMps, feedsToUpdate, bidx,
              round, currentRoundFailedFeeds, finalFailedFeeds, bresult,
              bloaded, bcalls, bfirstOk>>
vars == <<storeVars, ledgerVars, refreshVars, crawlVars, bulkVars>>

(***************************************************************************)
(* Helpers on sequences.                                                   *)
(***************************************************************************)
Range(s) == {s[k] : k \in 1..Len(s)}

\* Math.floor(a / b) in the place of Math.ceil
Ceil_Floor(a, b) == a \div b

\* Math.ceil(a / b) for a >= 0, b > 0
Ceil(a, b) == (a + b - 1) \div b

\* Set.add on an insertion-ordered set kept as a sequence
SetAdd(s, x) == IF x \in Range(s) THEN s ELSE Append(s, x)

(***************************************************************************)
(* Upstream pages.                                                         *)
(***************************************************************************)
ArticlePayloads == [id : ArticleIds, title : Titles, picUrl : PicUrls,
                    publishTime : PublishTimes]

\* one payload per article id: pages whose articles differ only in their id
BasicPayloads == {a \in ArticlePayloads :
                    a.title = "t1" /\ a.picUrl = "p1" /\ a.publishTime = 1}

RECURSIVE SeqsUpTo(_, _)
SeqsUpTo(S, n) ==
    IF n = 0 THEN {<<>>}
    ELSE LET shorter == SeqsUpTo(S, n - 1)
         IN  shorter \cup {Append(s, x) : s \in {t \in shorter : Len(t) = n - 1}, x \in S}

\* the sequences that list the elements of S once each (the orders in which
\* feed.findMany may return the rows of S)
Orders(S) == {s \in SeqsUpTo(S, Cardinality(S)) :
                Len(s) = Cardinality(S) /\ Range(s) = S}

\* pages of at most defaultCount articles, ascending in id
PagesOver(S) == {s \in SeqsUpTo(S, defaultCount) :
                    \A k \in 1..(Len(s) - 1) : s[k].id < s[k + 1].id}

\* one page per length 0..defaultCount, of the articles 1..length
PagesByLength ==
    {[k \in 1..n |-> [id |-> k, title |-> "t1", picUrl |-> "p1", publishTime |-> 1]] :
        n \in 0..defaultCount}

(***************************************************************************)
(* Storage operations used by refreshMpArticlesAndUpdateFeed.              *)
(***************************************************************************)
\* the upsert whose update replaces the row by the fields it lists
Upsert_Replace(store, mpId, a) ==
    IF store[a.id] = NoRow
    THEN [store EXCEPT ![a.id] = [mpId |-> mpId, title |-> a.title,
                                   picUrl |-> a.picUrl, publishTime |-> a.publishTime]]
    ELSE [store EXCEPT ![a.id] = [mpId |-> store[a.id].mpId, title |-> a.title,
                                   picUrl |-> "", publishTime |-> a.publishTime]]

\* prismaService.article.upsert: create the row, or update publishTime and title
Upsert(store, mpId, a) ==
    IF store[a.id] = NoRow
    THEN [store EXCEPT ![a.id] = [mpId |-> mpId, title |-> a.title,
                                   picUrl |-> a.picUrl, publishTime |-> a.publishTime]]
    ELSE [store EXCEPT ![a.id] = [mpId |-> store[a.id].mpId, title |-> a.title,
                                   picUrl |-> store[a.id].picUrl,
                                   publishTime |-> a.publishTime]]

\* one row of createMany({skipDuplicates: true}): insert unless the id exists
CreateSkip(store, mpId, a) ==
    IF store[a.id] = NoRow
    THEN [store EXCEPT ![a.id] = [mpId |-> mpId, title |-> a.title,
                                   picUrl |-> a.picUrl, publishTime |-> a.publishTime]]
    ELSE store

RECURSIVE WriteFrom(_, _, _, _, _)
WriteFrom(store, type, mpId, arts, k) ==
    IF k > Len(arts) THEN store
    ELSE WriteFrom(IF type = "sqlite" THEN Upsert(store, mpId, arts[k])
                   ELSE CreateSkip(store, mpId, arts[k]),
                   type, mpId, arts, k + 1)

\* lines 193-221: the article write of one page (nothing when the page is empty)
WriteArticles(store, type, mpId, arts) == WriteFrom(store, type, mpId, arts, 1)

\* line 231 with <= for <
HasHistoryOf_Inclusive(n) == IF n <= defaultCount THEN 0 ELSE 1

\* line 231
HasHistoryOf(n) == IF n < defaultCount THEN 0 ELSE 1

\* the update of lines 233-239 without syncTime
UpdateFeed_KeepSyncTime(fs, mpId, hasHistory, t) ==
    [fs EXCEPT ![mpId] = [hasHistory |-> hasHistory, syncTime |-> fs[mpId].syncTime,
                          status |-> fs[mpId].status]]

\* lines 233-239: feed.update({syncTime, hasHistory})
UpdateFeed(fs, mpId, hasHistory, t) ==
    [fs EXCEPT ![mpId] = [hasHistory |-> hasHistory, syncTime |-> t,
                          status |-> fs[mpId].status]]

\* lines 241-248
SuccessResult(mpId, n) ==
    [message |-> "ok", successCount |-> 1, errorCount |-> 0, failedFeeds |-> <<>>,
     hasHistory |-> HasHistoryOf(n), articlesCount |-> n]

\* lines 251-258
FailureResult(mpId) ==
    [message |-> "failed", successCount |-> 0, errorCount |-> 1,
     failedFeeds |-> <<mpId>>, hasHistory |-> 1, articlesCount |-> 0]

\* article.count({where: {mpId}})
CountArticles(store, mpId) ==
    Cardinality({id \in ArticleIds : store[id] # NoRow /\ store[id].mpId = mpId})

(***************************************************************************)
(* refreshMpArticlesAndUpdateFeed as its callers see it: the call returns  *)
(* a result and has changed the store.  `failAt` is where the call failed: *)
(* "fetch" (getMpArticles threw), "write" (the article write threw),       *)
(* "update" (feed.update threw), or "none".                                *)
(***************************************************************************)
FailPoints == {"none", "fetch", "write", "update"}

\* the outcomes of a call: the page the upstream returned (none when the
\* fetch failed, a page with articles when their write failed) and failAt
RefreshOutcomes ==
    {<<arts, failAt>> \in PagesByLength \X FailPoints :
        /\ failAt = "fetch" => arts = <<>>
        /\ failAt = "write" => Len(arts) > 0}

RefreshedArticles(mpId, arts, failAt) ==
    IF failAt \in {"fetch", "write"} THEN articles
    ELSE WriteArticles(articles, dbType, mpId, arts)

RefreshedFeeds(mpId, arts, failAt) ==
    IF failAt = "none" THEN UpdateFeed(feeds, mpId, HasHistoryOf(Len(arts)), now)
    ELSE feeds

RefreshResult(mpId, arts, failAt) ==
    IF failAt = "none" THEN SuccessResult(mpId, Len(arts)) ELSE FailureResult(mpId)

(***************************************************************************)
(* The fields of the service after construction.                           *)
(***************************************************************************)
\* lines 262-265
IdleRecord == [id |-> "", page |-> 1]

InitHistoryOf(log) ==
    /\ hlog = log
    /\ inProgressHistoryMp = IdleRecord
    /\ hpc = [p \in CrawlProcs |-> "idle"]
    /\ hmp = [p \in CrawlProcs |-> ""]
    /\ hi = [p \in CrawlProcs |-> 0]
    /\ hpage = [p \in CrawlProcs |-> 0]
    /\ lastCall = "none"
    /\ hcalls = [p \in CrawlProcs |-> 0]
    /\ hfail = [p \in CrawlProcs |-> FALSE]
    /\ hexit = "none"
    /\ lastSame = FALSE

InitHistory == InitHistoryOf(FALSE)

InitBulk ==
    /\ isRefreshAllMpArticlesRunning = FALSE
    /\ bpc = [p \in BulkProcs |-> "idle"]
    /\ allMps = [p \in BulkProcs |-> <<>>]
    /\ feedsToUpdate = [p \in BulkProcs |-> <<>>]
    /\ bidx = [p \in BulkProcs |-> 0]
    /\ round = [p \in BulkProcs |-> 0]
    /\ currentRoundFailedFeeds = [p \in BulkProcs |-> <<>>]
    /\ finalFailedFeeds = [p \in BulkProcs |-> <<>>]
    /\ bresult = NoResult
    /\ bloaded = <<>>
    /\ bcalls = [f \in FeedIds |-> 0]
    /\ bfirstOk = [f \in FeedIds |-> 0]

(***************************************************************************)
(* The quarantine ledger and getAvailableAccount (lines 107-145).          *)
(***************************************************************************)
\* line 30: new Map()
InitLedger ==
    /\ blockedAccountsMap = [d \in Days |-> NoList]
    /\ today = "d1"

\* lines 121-126: today's list, or [] when there is none, read from `map`
BlockedAccountIdsOf(map) == IF map[today] = NoList THEN <<>> ELSE map[today]

getBlockedAccountIds == BlockedAccountIdsOf(blockedAccountsMap)

\* the query without its NOT clause
AvailableAccounts_IgnoreLedger(disabledAccounts) ==
    {a \in AccountIds : accounts[a] = ENABLE}

\* lines 130-138: the enabled accounts not in disabledAccounts
AvailableAccounts(disabledAccounts) ==
    {a \in AccountIds : accounts[a] = ENABLE /\ a \notin Range(disabledAccounts)}

\* the bookkeeping that creates today's list when there is none
Quarantined_Creates(map, id) ==
    IF map[today] # NoList THEN [map EXCEPT ![today] = Append(@, id)]
    ELSE [map EXCEPT ![today] = <<id>>]

\* lines 84-92: the failing account joins today's list when there is one
Quarantined(map, id) ==
    IF map[today] # NoList THEN [map EXCEPT ![today] = Append(@, id)] ELSE map

\* lines 107-115
removeBlockedAccount(vid) ==
    /\ blockedAccountsMap' =
          IF blockedAccountsMap[today] # NoList
          THEN [blockedAccountsMap EXCEPT
                  ![today] = SelectSeq(@, LAMBDA id : id # vid)]
          ELSE blockedAccountsMap
    /\ UNCHANGED <<today, storeVars, refreshVars, crawlVars, bulkVars>>

(***************************************************************************)
(* refreshMpArticlesAndUpdateFeed, getMpArticles and the response error    *)
(* interceptor, segment by segment (lines 63-104 and 147-260).             *)
(***************************************************************************)
\* the call returns `result`; `cause` is where its exception came from
RefreshReturn(result, cause) ==
    /\ rpc' = "idle"
    /\ rresult' = result
    /\ rcause' = cause
    /\ retryCount' = 0
    /\ rdisabled' = <<>>
    /\ raccount' = NoAccount
    /\ rmarker' = ""
    /\ rsync' = 0
    /\ rattempts' = IF cause = "noaccount" THEN rattempts ELSE 0

\* an exception that is not caught leaves the function
RefreshCatch_Uncaught(cause) == RefreshReturn([message |-> "thrown"], cause)

\* lines 249-259: the catch block of refreshMpArticlesAndUpdateFeed
RefreshCatch(cause) == RefreshReturn(FailureResult(rmp), cause)

\* lines 147-149: an attempt of getMpArticles starts: getAvailableAccount reads
\* the quarantine (`map`: the ledger as the segment has left it) and awaits
\* account.findMany
GetMpArticlesAttempt(retries, map) ==
    /\ rpc' = "select"
    /\ retryCount' = retries
    /\ rdisabled' = BlockedAccountIdsOf(map)
    /\ raccount' = NoAccount
    /\ rmarker' = ""

\* the catch block that gives up while one retry is left
GetMpArticlesCatch_OneLess(err, map) ==
    /\ rerr' = err
    /\ IF retryCount > 1
       THEN /\ GetMpArticlesAttempt(retryCount - 1, map)
            /\ UNCHANGED <<rsync, rresult, rcause, rattempts>>
       ELSE RefreshCatch("fetch")

\* lines 176-183: the catch block of getMpArticles, entered with the error
\* `err` (the rejection of the interceptor: the upstream failure it passes
\* on, "upstream", or the exception of its own account.update, "storage");
\* the retry reads the ledger `map`
GetMpArticlesCatch(err, map) ==
    /\ rerr' = err
    /\ IF retryCount > 0
       THEN /\ GetMpArticlesAttempt(retryCount - 1, map)
            /\ UNCHANGED <<rsync, rresult, rcause, rattempts>>
       ELSE RefreshCatch("fetch")

\* lines 186-191: the call, up to the first await
RefreshCall(mpId) ==
    /\ rpc = "idle"
    /\ rmp' = mpId
    /\ rstart' = now
    /\ rbefore' = feeds[mpId]
    /\ rarticles' = <<>>
    /\ rresult' = NoResult
    /\ rcause' = "none"
    /\ rsync' = 0
    /\ rattempts' = 0
    /\ rerr' = "none"
    /\ GetMpArticlesAttempt(defaultRetryCount, blockedAccountsMap)
    /\ UNCHANGED <<storeVars, ledgerVars, crawlVars, bulkVars>>

\* the selection whose exception is caught by the catch block of getMpArticles
RefreshSelect_Retry(dbOk, a) ==
    /\ rpc = "select"
    /\ IF ~dbOk THEN RefreshCatch("select") /\ rerr' = "none"
       ELSE IF AvailableAccounts(rdisabled) = {}
       THEN GetMpArticlesCatch("noaccount", blockedAccountsMap)
       ELSE /\ a \in AvailableAccounts(rdisabled)
            /\ rpc' = "request"
            /\ raccount' = a
            /\ rattempts' = rattempts + 1
            /\ UNCHANGED <<retryCount, rdisabled, rmarker, rsync, rresult, rcause,
                           rerr>>
    /\ UNCHANGED <<rmp, rarticles, rstart, rbefore>>
    /\ UNCHANGED <<storeVars, ledgerVars, crawlVars, bulkVars>>

\* lines 130-167: account.findMany resolves; an account is drawn and the
\* upstream request is sent, or getAvailableAccount throws
RefreshSelect(dbOk, a) ==
    /\ rpc = "select"
    /\ IF ~dbOk THEN RefreshCatch("select") /\ rerr' = "none"
       ELSE IF AvailableAccounts(rdisabled) = {}
       THEN RefreshCatch("noaccount") /\ rerr' = "none"
       ELSE /\ a \in AvailableAccounts(rdisabled)
            /\ rpc' = "request"
            /\ raccount' = a
            /\ rattempts' = rattempts + 1
            /\ UNCHANGED <<retryCount, rdisabled, rmarker, rsync, rresult, rcause,
                           rerr>>
    /\ UNCHANGED <<rmp, rarticles, rstart, rbefore>>
    /\ UNCHANGED <<storeVars, ledgerVars, crawlVars, bulkVars>>

\* lines 84-102: the interceptor's quarantine bookkeeping, then the rejection
\* reaches the catch block of getMpArticles (or waits 10 s first)
InterceptorLedger(marker) ==
    /\ blockedAccountsMap' = Quarantined(blockedAccountsMap, raccount)
    /\ IF blockedAccountsMap[today] = NoList /\ marker = "WeReadError400"
       THEN /\ rpc' = "penalty"
            /\ UNCHANGED <<retryCount, rdisabled, raccount, rsync, rresult, rcause,
                           rattempts, rerr>>
            /\ rmarker' = marker
       ELSE GetMpArticlesCatch("upstream", Quarantined(blockedAccountsMap, raccount))

\* lines 168-175 and 191-239: the upstream request succeeds with a page; the
\* article write, or the feed update when the page is empty, is sent
RefreshPage(arts) ==
    /\ rpc = "request"
    /\ rarticles' = arts
    /\ rerr' = "none"
    /\ IF Len(arts) > 0
       THEN /\ rpc' = "write"
            /\ UNCHANGED rsync
       ELSE /\ rpc' = "update"
            /\ rsync' = now
    /\ UNCHANGED <<rmp, retryCount, rdisabled, raccount, rmarker, rresult, rcause,
                   rstart, rbefore, rattempts>>
    /\ UNCHANGED <<storeVars, ledgerVars, crawlVars, bulkVars>>

\* lines 67-102: the upstream request fails; the interceptor runs
RefreshError(marker) ==
    /\ rpc = "request"
    /\ IF marker = "WeReadError401"
       THEN /\ rpc' = "disable"
            /\ rmarker' = marker
            /\ UNCHANGED <<retryCount, rdisabled, raccount, rsync, rresult, rcause,
                           rattempts, rerr, blockedAccountsMap>>
       ELSE InterceptorLedger(marker)
    /\ UNCHANGED <<rmp, rarticles, rstart, rbefore>>
    /\ UNCHANGED <<today, storeVars, crawlVars, bulkVars>>

\* the interceptor without its account.update
RefreshDisable_NoUpdate(dbOk) ==
    /\ rpc = "disable"
    /\ IF dbOk
       THEN /\ UNCHANGED accounts
            /\ InterceptorLedger(rmarker)
       ELSE /\ UNCHANGED <<accounts, blockedAccountsMap>>
            /\ GetMpArticlesCatch("storage", blockedAccountsMap)
    /\ UNCHANGED <<rmp, rarticles, rstart, rbefore>>
    /\ UNCHANGED <<feeds, articles, dbType, now, today, crawlVars, bulkVars>>

\* lines 74-102: account.update({status: INVALID}) resolves or throws
RefreshDisable(dbOk) ==
    /\ rpc = "disable"
    /\ IF dbOk
       THEN /\ accounts' = [accounts EXCEPT ![raccount] = INVALID]
            /\ InterceptorLedger(rmarker)
       ELSE /\ UNCHANGED <<accounts, blockedAccountsMap>>
            /\ GetMpArticlesCatch("storage", blockedAccountsMap)
    /\ UNCHANGED <<rmp, rarticles, rstart, rbefore>>
    /\ UNCHANGED <<feeds, articles, dbType, now, today, crawlVars, bulkVars>>

\* lines 97-102: the 10 s wait is over
RefreshPenalty ==
    /\ rpc = "penalty"
    /\ GetMpArticlesCatch("upstream", blockedAccountsMap)
    /\ UNCHANGED <<rmp, rarticles, rstart, rbefore>>
    /\ UNCHANGED <<storeVars, ledgerVars, crawlVars, bulkVars>>

\* lines 209-239: the article write resolves or throws; the feed update is sent
RefreshWrite(dbOk) ==
    /\ rpc = "write"
    /\ IF dbOk
       THEN /\ articles' = WriteArticles(articles, dbType, rmp, rarticles)
            /\ rpc' = "update"
            /\ rsync' = now
            /\ UNCHANGED <<retryCount, rdisabled, raccount, rmarker, rresult, rcause,
                           rattempts>>
       ELSE /\ UNCHANGED articles
            /\ RefreshCatch("write")
    /\ UNCHANGED <<rmp, rarticles, rstart, rbefore, rerr>>
    /\ UNCHANGED <<accounts, feeds, dbType, now, ledgerVars, crawlVars, bulkVars>>

\* lines 233-248: feed.update resolves or throws
RefreshUpdate(dbOk) ==
    /\ rpc = "update"
    /\ IF dbOk
       THEN /\ feeds' = UpdateFeed(feeds, rmp, HasHistoryOf(Len(rarticles)), rsync)
            /\ RefreshReturn(SuccessResult(rmp, Len(rarticles)), "none")
       ELSE /\ UNCHANGED feeds
            /\ RefreshCatch("update")
    /\ UNCHANGED <<rmp, rarticles, rstart, rbefore, rerr>>
    /\ UNCHANGED <<accounts, articles, dbType, now, ledgerVars, crawlVars, bulkVars>>

\* time passes
Tick ==
    /\ now < MaxTime
    /\ now' = now + 1
    /\ UNCHANGED <<accounts, feeds, articles, dbType, ledgerVars, refreshVars,
                   crawlVars, bulkVars>>

InitRefresh ==
    /\ rpc = "idle"
    /\ rmp = "A"
    /\ retryCount = 0
    /\ rdisabled = <<>>
    /\ raccount = NoAccount
    /\ rmarker = ""
    /\ rarticles = <<>>
    /\ rsync = 0
    /\ rresult = NoResult
    /\ rcause = "none"
    /\ rstart = 0
    /\ rbefore = [hasHistory |-> 1, syncTime |-> 0, status |-> ENABLE]
    /\ rattempts = 0
    /\ rerr = "none"

\* the store of the refresh model: feeds never synced, with or without history
InitRefreshStore ==
    /\ accounts = [a \in AccountIds |-> ENABLE]
    /\ feeds \in [FeedIds -> [hasHistory : {0, 1}, syncTime : {0}, status : {ENABLE}]]
    /\ articles = [id \in ArticleIds |-> NoRow]
    /\ dbType \in {"sqlite", "mysql"}
    /\ now = 1

InitRefreshOne ==
    InitRefreshStore /\ InitLedger /\ InitRefresh /\ InitHistory /\ InitBulk

NextRefresh ==
    \/ \E mpId \in FeedIds : RefreshCall(mpId)
    \/ \E dbOk \in BOOLEAN, a \in AccountIds : RefreshSelect(dbOk, a)
    \/ \E arts \in PagesOver(BasicPayloads) : RefreshPage(arts)
    \/ \E marker \in Markers : RefreshError(marker)
    \/ \E dbOk \in BOOLEAN : RefreshDisable(dbOk)
    \/ RefreshPenalty
    \/ \E dbOk \in BOOLEAN : RefreshWrite(dbOk)
    \/ \E dbOk \in BOOLEAN : RefreshUpdate(dbOk)
    \/ \E vid \in AccountIds : removeBlockedAccount(vid)
    \/ Tick

SpecRefresh == InitRefreshOne /\ [][NextRefresh]_vars

(***************************************************************************)
(* The same call over every account pool and every content of today's      *)
(* quarantine list: blockedAccountsMap is read and updated by lines 84-92,  *)
(* 107-115 and 121-126, which handle a day with a list and a day without.   *)
(***************************************************************************)
\* the lists of account ids without repetition
QuarantineLists == UNION {Orders(S) : S \in SUBSET AccountIds}

\* blockedAccountsMap: today has no list, or one of the lists
InitLedgerAny ==
    /\ blockedAccountsMap \in [Days -> QuarantineLists \cup {NoList}]
    /\ today = "d1"

\* the store of the ledger model: each account enabled or disabled by the user
InitLedgerStore ==
    /\ accounts \in [AccountIds -> {ENABLE, DISABLE}]
    /\ feeds = [f \in FeedIds |-> [hasHistory |-> 1, syncTime |-> 1, status |-> ENABLE]]
    /\ articles = [id \in ArticleIds |-> NoRow]
    /\ dbType = "sqlite"
    /\ now = 1

InitAccounts ==
    InitLedgerStore /\ InitLedgerAny /\ InitRefresh /\ InitHistory /\ InitBulk

\* the awaited steps of a call: each resolves or rejects
RefreshStep ==
    \/ \E dbOk \in BOOLEAN, a \in AccountIds : RefreshSelect(dbOk, a)
    \/ \E arts \in PagesByLength : RefreshPage(arts)
    \/ \E marker \in Markers : RefreshError(marker)
    \/ \E dbOk \in BOOLEAN : RefreshDisable(dbOk)
    \/ RefreshPenalty
    \/ \E dbOk \in BOOLEAN : RefreshWrite(dbOk)
    \/ \E dbOk \in BOOLEAN : RefreshUpdate(dbOk)

NextAccounts ==
    \/ \E mpId \in FeedIds : RefreshCall(mpId)
    \/ RefreshStep
    \/ \E vid \in AccountIds : removeBlockedAccount(vid)

SpecAccounts == InitAccounts /\ [][NextAccounts]_vars /\ WF_vars(RefreshStep)

(***************************************************************************)
(* refreshMpArticlesAndUpdateFeed over stores that already hold articles   *)
(* and pages of any content: one action per call, as its callers see it.   *)
(***************************************************************************)
\* the article ids of the stored rows and of the pages
StoredIds == {1, 2}

\* the rows the article table may hold for an id
StoredRows == [mpId : FeedIds, title : Titles, picUrl : PicUrls,
               publishTime : PublishTimes] \cup {NoRow}

\* the pages the upstream may return: any title and publish time, one image
RichPages == PagesOver({a \in ArticlePayloads : a.id \in StoredIds /\ a.picUrl = "p2"})

\* the outcomes of a call over these pages
RichOutcomes ==
    {<<arts, failAt>> \in RichPages \X FailPoints :
        /\ failAt = "fetch" => arts = <<>>
        /\ failAt = "write" => Len(arts) > 0}

\* lines 186-260: one call of refreshMpArticlesAndUpdateFeed(mpId), from the
\* call to the return
RefreshOnePage(mpId, arts, failAt) ==
    /\ rpc = "idle"
    /\ rmp' = mpId
    /\ rstart' = now
    /\ rbefore' = feeds[mpId]
    /\ rarticles' = arts
    /\ articles' = RefreshedArticles(mpId, arts, failAt)
    /\ feeds' = RefreshedFeeds(mpId, arts, failAt)
    /\ rresult' = RefreshResult(mpId, arts, failAt)
    /\ rcause' = failAt
    /\ UNCHANGED <<rpc, retryCount, rdisabled, raccount, rmarker, rsync, rattempts,
                   rerr>>
    /\ UNCHANGED <<accounts, dbType, now, ledgerVars, crawlVars, bulkVars>>

\* the store of the page model: any rows for the stored ids, either database
InitPageStore ==
    /\ accounts = [a \in AccountIds |-> ENABLE]
    /\ feeds = [f \in FeedIds |-> [hasHistory |-> 1, syncTime |-> 1, status |-> ENABLE]]
    /\ articles \in [ArticleIds -> StoredRows]
    /\ \A id \in ArticleIds \ StoredIds : articles[id] = NoRow
    /\ dbType \in {"sqlite", "mysql"}
    /\ now = 1

InitPage == InitPageStore /\ InitLedger /\ InitRefresh /\ InitHistory /\ InitBulk

NextPage == \E o \in RichOutcomes : RefreshOnePage("A", o[1], o[2])

SpecPage == InitPage /\ [][NextPage]_vars

(***************************************************************************)
(* getHistoryMpArticles (lines 262-335).                                   *)
(***************************************************************************)
\* the exit without the reset of lines 330-333
HistoryExit_KeepRecord(p, why) ==
    /\ UNCHANGED inProgressHistoryMp
    /\ hpc' = [hpc EXCEPT ![p] = "idle"]
    /\ hmp' = [hmp EXCEPT ![p] = ""]
    /\ hi' = [hi EXCEPT ![p] = 0]
    /\ hpage' = [hpage EXCEPT ![p] = 0]
    /\ hcalls' = [hcalls EXCEPT ![p] = 0]
    /\ hfail' = [hfail EXCEPT ![p] = FALSE]
    /\ hexit' = why

\* lines 329-334: the finally block; the invocation is over
HistoryExit(p, why) ==
    /\ inProgressHistoryMp' = IdleRecord
    /\ hpc' = [hpc EXCEPT ![p] = "idle"]
    /\ hmp' = [hmp EXCEPT ![p] = ""]
    /\ hi' = [hi EXCEPT ![p] = 0]
    /\ hpage' = [hpage EXCEPT ![p] = 0]
    /\ hcalls' = [hcalls EXCEPT ![p] = 0]
    /\ hfail' = [hfail EXCEPT ![p] = FALSE]
    /\ hexit' = why

\* the loop head of a loop that never counts down
HistoryLoopHead_NoBudget(p, i, rec) ==
    IF rec.id = hmp[p]
    THEN /\ inProgressHistoryMp' = rec
         /\ hpc' = [hpc EXCEPT ![p] = "refresh"]
         /\ hi' = [hi EXCEPT ![p] = i]
         /\ hpage' = [hpage EXCEPT ![p] = rec.page]
         /\ hcalls' = [hcalls EXCEPT ![p] = hcalls[p] + 1]
         /\ hfail' = [hfail EXCEPT ![p] = FALSE]
         /\ hexit' = "none"
         /\ UNCHANGED hmp
    ELSE HistoryExit(p, "stopped")

\* the loop head without the check of line 305
HistoryLoopHead_NoIdCheck(p, i, rec) ==
    IF i > 0
    THEN /\ inProgressHistoryMp' = rec
         /\ hpc' = [hpc EXCEPT ![p] = "refresh"]
         /\ hi' = [hi EXCEPT ![p] = i - 1]
         /\ hpage' = [hpage EXCEPT ![p] = rec.page]
         /\ hcalls' = [hcalls EXCEPT ![p] = hcalls[p] + 1]
         /\ hfail' = [hfail EXCEPT ![p] = FALSE]
         /\ hexit' = "none"
         /\ UNCHANGED hmp
    ELSE HistoryExit(p, IF i > 0 THEN "stopped" ELSE "budget")

\* lines 304-315: the loop head, entered with counter i and the record rec
HistoryLoopHead(p, i, rec) ==
    IF i > 0 /\ rec.id = hmp[p]
    THEN /\ inProgressHistoryMp' = rec
         /\ hpc' = [hpc EXCEPT ![p] = "refresh"]
         /\ hi' = [hi EXCEPT ![p] = i - 1]
         /\ hpage' = [hpage EXCEPT ![p] = rec.page]
         /\ hcalls' = [hcalls EXCEPT ![p] = hcalls[p] + 1]
         /\ hfail' = [hfail EXCEPT ![p] = FALSE]
         /\ hexit' = "none"
         /\ UNCHANGED hmp
    ELSE HistoryExit(p, IF i > 0 THEN "stopped" ELSE "budget")

\* the call without the return of lines 268-271
GetHistoryMpArticles_NoGuard(mpId) ==
    /\ lastCall' = mpId
    /\ lastSame' = (hlog /\ mpId # "" /\ inProgressHistoryMp.id = mpId)
    /\ hexit' = "none"
    /\ IF mpId = ""
       THEN /\ inProgressHistoryMp' = [id |-> mpId, page |-> 1]
            /\ UNCHANGED <<hpc, hmp, hi, hpage>>
       ELSE \E p \in CrawlProcs :
            /\ hpc[p] = "idle"
            /\ inProgressHistoryMp' = [id |-> mpId, page |-> 1]
            /\ hpc' = [hpc EXCEPT ![p] = "findFeed"]
            /\ hmp' = [hmp EXCEPT ![p] = mpId]
            /\ UNCHANGED <<hi, hpage>>
    /\ UNCHANGED <<hcalls, hfail, hlog>>
    /\ UNCHANGED <<storeVars, ledgerVars, refreshVars, bulkVars>>

\* lines 267-287: the call, up to the first await
GetHistoryMpArticles(mpId) ==
    /\ lastCall' = mpId
    /\ lastSame' = (hlog /\ mpId # "" /\ inProgressHistoryMp.id = mpId)
    /\ hexit' = "none"
    /\ IF inProgressHistoryMp.id = mpId
       THEN UNCHANGED <<inProgressHistoryMp, hpc, hmp, hi, hpage>>
       ELSE IF mpId = ""
       THEN /\ inProgressHistoryMp' = [id |-> mpId, page |-> 1]
            /\ UNCHANGED <<hpc, hmp, hi, hpage>>
       ELSE \E p \in CrawlProcs :
            /\ hpc[p] = "idle"
            /\ inProgressHistoryMp' = [id |-> mpId, page |-> 1]
            /\ hpc' = [hpc EXCEPT ![p] = "findFeed"]
            /\ hmp' = [hmp EXCEPT ![p] = mpId]
            /\ UNCHANGED <<hi, hpage>>
    /\ UNCHANGED <<hcalls, hfail, hlog>>
    /\ UNCHANGED <<storeVars, ledgerVars, refreshVars, bulkVars>>

\* the lookup without the return of lines 290-293
HistoryFindFeed_IgnoreHasHistory(p, dbOk) ==
    /\ hpc[p] = "findFeed"
    /\ IF dbOk /\ hmp[p] \in FeedIds
       THEN /\ hpc' = [hpc EXCEPT ![p] = "count"]
            /\ hexit' = "none"
            /\ UNCHANGED <<inProgressHistoryMp, hmp, hi, hpage, hcalls, hfail>>
       ELSE HistoryExit(p, "lookup")
    /\ lastSame' = FALSE
    /\ UNCHANGED <<lastCall, hlog, storeVars, ledgerVars, refreshVars, bulkVars>>

\* the lookup outside the try block: its returns skip the finally block
HistoryFindFeed_EarlyReturn(p, dbOk) ==
    /\ hpc[p] = "findFeed"
    /\ IF dbOk /\ hmp[p] \in FeedIds /\ feeds[hmp[p]].hasHistory # 0
       THEN /\ hpc' = [hpc EXCEPT ![p] = "count"]
            /\ hexit' = "none"
            /\ UNCHANGED <<inProgressHistoryMp, hmp, hi, hpage, hcalls, hfail>>
       ELSE /\ hpc' = [hpc EXCEPT ![p] = "idle"]
            /\ hmp' = [hmp EXCEPT ![p] = ""]
            /\ hexit' = IF dbOk /\ hmp[p] \in FeedIds THEN "nohistory" ELSE "lookup"
            /\ UNCHANGED <<inProgressHistoryMp, hi, hpage, hcalls, hfail>>
    /\ lastSame' = FALSE
    /\ UNCHANGED <<lastCall, hlog, storeVars, ledgerVars, refreshVars, bulkVars>>

\* lines 283-299: feed.findFirstOrThrow resolves or throws
HistoryFindFeed(p, dbOk) ==
    /\ hpc[p] = "findFeed"
    /\ IF dbOk /\ hmp[p] \in FeedIds /\ feeds[hmp[p]].hasHistory # 0
       THEN /\ hpc' = [hpc EXCEPT ![p] = "count"]
            /\ hexit' = "none"
            /\ UNCHANGED <<inProgressHistoryMp, hmp, hi, hpage, hcalls, hfail>>
       ELSE HistoryExit(p, IF dbOk /\ hmp[p] \in FeedIds THEN "nohistory" ELSE "lookup")
    /\ lastSame' = FALSE
    /\ UNCHANGED <<lastCall, hlog, storeVars, ledgerVars, refreshVars, bulkVars>>

\* lines 295-315: article.count resolves or throws
HistoryCount(p, dbOk) ==
    /\ hpc[p] = "count"
    /\ IF dbOk
       THEN HistoryLoopHead(p, MaxCrawlIterations,
                [inProgressHistoryMp EXCEPT
                    !.page = Ceil(CountArticles(articles, hmp[p]), defaultCount)])
       ELSE HistoryExit(p, "count")
    /\ lastSame' = FALSE
    /\ UNCHANGED <<lastCall, hlog, storeVars, ledgerVars, refreshVars, bulkVars>>

\* lines 312-327: refreshMpArticlesAndUpdateFeed(mpId, page) returns
HistoryRefreshReturn(p, arts, failAt) ==
    /\ hpc[p] = "refresh"
    /\ articles' = RefreshedArticles(hmp[p], arts, failAt)
    /\ feeds' = RefreshedFeeds(hmp[p], arts, failAt)
    /\ IF RefreshResult(hmp[p], arts, failAt).hasHistory < 1
       THEN HistoryExit(p, "short")
       ELSE /\ inProgressHistoryMp' =
                  [inProgressHistoryMp EXCEPT !.page = inProgressHistoryMp.page + 1]
            /\ hpc' = [hpc EXCEPT ![p] = "delay"]
            /\ hfail' = [hfail EXCEPT ![p] = hlog /\ failAt # "none"]
            /\ hexit' = "none"
            /\ UNCHANGED <<hmp, hi, hpage, hcalls>>
    /\ lastSame' = FALSE
    /\ UNCHANGED <<lastCall, hlog, accounts, dbType, now, ledgerVars, refreshVars, bulkVars>>

\* lines 325-328 and 304-315: the delay is over, next iteration
HistoryDelayDone(p) ==
    /\ hpc[p] = "delay"
    /\ HistoryLoopHead(p, hi[p], inProgressHistoryMp)
    /\ lastSame' = FALSE
    /\ UNCHANGED <<lastCall, hlog, storeVars, ledgerVars, refreshVars, bulkVars>>

HistoryStep(p) ==
    \/ \E dbOk \in BOOLEAN : HistoryFindFeed(p, dbOk)
    \/ \E dbOk \in BOOLEAN : HistoryCount(p, dbOk)
    \/ \E o \in RefreshOutcomes : HistoryRefreshReturn(p, o[1], o[2])
    \/ HistoryDelayDone(p)

\* the store of the crawl model: both feeds enabled, just synced, no article yet
InitCrawlStore ==
    /\ accounts = [a \in AccountIds |-> ENABLE]
    /\ feeds = [f \in FeedIds |-> [hasHistory |-> 1, syncTime |-> 1, status |-> ENABLE]]
    /\ articles = [id \in ArticleIds |-> NoRow]
    /\ dbType = "sqlite"
    /\ now = 1

InitCrawl == InitCrawlStore /\ InitLedger /\ InitRefresh /\ InitHistory /\ InitBulk

NextCrawl ==
    \/ \E mpId \in MpIds : GetHistoryMpArticles(mpId)
    \/ \E p \in CrawlProcs : HistoryStep(p)

SpecCrawl ==
    /\ InitCrawl
    /\ [][NextCrawl]_vars
    /\ \A p \in CrawlProcs : WF_vars(HistoryStep(p))

\* the same crawls, with the record of the failed refreshes and of the calls
\* that named the id in the record
InitCrawlLog ==
    InitCrawlStore /\ InitLedger /\ InitRefresh /\ InitHistoryOf(TRUE) /\ InitBulk

SpecCrawlLog ==
    /\ InitCrawlLog
    /\ [][NextCrawl]_vars
    /\ \A p \in CrawlProcs : WF_vars(HistoryStep(p))

(***************************************************************************)
(* refreshAllMpArticlesAndUpdateFeed (lines 337-442).                      *)
(***************************************************************************)
\* feed.findMany({where: {status: ENABLE}})
EnabledFeeds == {f \in FeedIds : feeds[f].status = ENABLE}

\* lines 343-348
AlreadyRunningResult ==
    [message |-> "running", successCount |-> -1, errorCount |-> -1,
     failedFeeds |-> <<>>]

\* lines 357-362
NoFeedsResult ==
    [message |-> "nofeeds", successCount |-> 0, errorCount |-> 0,
     failedFeeds |-> <<>>]

\* lines 406-422 with the failures not subtracted
FinishedResult_AllSucceeded(all, failed) ==
    [message |-> "finished", successCount |-> Len(all),
     errorCount |-> Len(failed), failedFeeds |-> failed]

\* lines 406-422
FinishedResult(all, failed) ==
    [message |-> "finished", successCount |-> Len(all) - Len(failed),
     errorCount |-> Len(failed), failedFeeds |-> failed]

\* lines 429-438
UnexpectedResult(n) ==
    [message |-> "unexpected", successCount |-> 0, errorCount |-> n,
     failedFeeds |-> <<>>]

\* the exception of the handler's own query leaves the function
ThrownResult == [message |-> "thrown"]

\* line 376 without its second disjunct
RoundFailure_ErrorsOnly(result) == result.errorCount > 0

\* line 376: the refresh of a feed counts as failed
RoundFailure(result) == result.errorCount > 0 \/ result.articlesCount = 0

\* the exit without the release of line 440
BulkExit_NoRelease(p, result) ==
    /\ UNCHANGED isRefreshAllMpArticlesRunning
    /\ bpc' = [bpc EXCEPT ![p] = "idle"]
    /\ bresult' = result
    /\ allMps' = [allMps EXCEPT ![p] = <<>>]
    /\ feedsToUpdate' = [feedsToUpdate EXCEPT ![p] = <<>>]
    /\ bidx' = [bidx EXCEPT ![p] = 0]
    /\ round' = [round EXCEPT ![p] = 0]
    /\ currentRoundFailedFeeds' = [currentRoundFailedFeeds EXCEPT ![p] = <<>>]
    /\ finalFailedFeeds' = [finalFailedFeeds EXCEPT ![p] = <<>>]

\* lines 439-441: the finally block; the invocation returns `result`
BulkExit(p, result) ==
    /\ isRefreshAllMpArticlesRunning' = FALSE
    /\ bpc' = [bpc EXCEPT ![p] = "idle"]
    /\ bresult' = result
    /\ allMps' = [allMps EXCEPT ![p] = <<>>]
    /\ feedsToUpdate' = [feedsToUpdate EXCEPT ![p] = <<>>]
    /\ bidx' = [bidx EXCEPT ![p] = 0]
    /\ round' = [round EXCEPT ![p] = 0]
    /\ currentRoundFailedFeeds' = [currentRoundFailedFeeds EXCEPT ![p] = <<>>]
    /\ finalFailedFeeds' = [finalFailedFeeds EXCEPT ![p] = <<>>]

\* the call without the guard
AlreadyRunning_Never == FALSE

\* the guard of lines 340-350
AlreadyRunning == isRefreshAllMpArticlesRunning

\* lines 339-352: the call, up to the first await
RefreshAll(p) ==
    /\ bpc[p] = "idle"
    /\ IF AlreadyRunning
       THEN /\ bresult' = AlreadyRunningResult
            /\ UNCHANGED <<isRefreshAllMpArticlesRunning, bpc, allMps, feedsToUpdate,
                           bidx, round, currentRoundFailedFeeds, finalFailedFeeds,
                           bloaded, bcalls, bfirstOk>>
       ELSE /\ isRefreshAllMpArticlesRunning' = TRUE
            /\ bpc' = [bpc EXCEPT ![p] = "load"]
            /\ bresult' = NoResult
            /\ bloaded' = <<>>
            /\ bcalls' = [f \in FeedIds |-> 0]
            /\ bfirstOk' = [f \in FeedIds |-> 0]
            /\ UNCHANGED <<allMps, feedsToUpdate, bidx, round,
                           currentRoundFailedFeeds, finalFailedFeeds>>
    /\ UNCHANGED <<storeVars, ledgerVars, refreshVars, crawlVars>>

\* lines 352-375: feed.findMany resolves (with the rows in order `mps`) or throws
BulkLoad(p, dbOk, mps) ==
    /\ bpc[p] = "load"
    /\ IF ~dbOk
       THEN /\ bpc' = [bpc EXCEPT ![p] = "handler"]
            /\ UNCHANGED <<isRefreshAllMpArticlesRunning, allMps, feedsToUpdate, bidx,
                           round, currentRoundFailedFeeds, finalFailedFeeds, bresult,
                           bloaded>>
       ELSE IF Len(mps) = 0
       THEN /\ BulkExit(p, NoFeedsResult)
            /\ UNCHANGED bloaded
       ELSE /\ allMps' = [allMps EXCEPT ![p] = mps]
            /\ bloaded' = mps
            /\ feedsToUpdate' = [feedsToUpdate EXCEPT ![p] = mps]
            /\ finalFailedFeeds' = [finalFailedFeeds EXCEPT ![p] = <<>>]
            /\ round' = [round EXCEPT ![p] = 1]
            /\ currentRoundFailedFeeds' = [currentRoundFailedFeeds EXCEPT ![p] = <<>>]
            /\ bidx' = [bidx EXCEPT ![p] = 1]
            /\ bpc' = [bpc EXCEPT ![p] = "refresh"]
            /\ UNCHANGED <<isRefreshAllMpArticlesRunning, bresult>>
    /\ UNCHANGED <<bcalls, bfirstOk, storeVars, ledgerVars, refreshVars, crawlVars>>

\* lines 375-389: refreshMpArticlesAndUpdateFeed(id) returns
BulkRefreshReturn(p, arts, failAt) ==
    LET id == feedsToUpdate[p][bidx[p]]
        result == RefreshResult(id, arts, failAt)
    IN  /\ bpc[p] = "refresh"
        /\ articles' = RefreshedArticles(id, arts, failAt)
        /\ feeds' = RefreshedFeeds(id, arts, failAt)
        /\ currentRoundFailedFeeds' =
              [currentRoundFailedFeeds EXCEPT
                  ![p] = IF RoundFailure(result) THEN SetAdd(@, id) ELSE @]
        /\ bpc' = [bpc EXCEPT ![p] = "delay"]
        /\ bcalls' = [bcalls EXCEPT ![id] = @ + 1]
        /\ bfirstOk' = [bfirstOk EXCEPT
                          ![id] = IF @ = 0 /\ result.errorCount = 0
                                           /\ result.articlesCount > 0
                                     THEN round[p] ELSE @]
        /\ UNCHANGED <<isRefreshAllMpArticlesRunning, allMps, feedsToUpdate, bidx,
                       round, finalFailedFeeds, bresult, bloaded>>
        /\ UNCHANGED <<accounts, dbType, now, ledgerVars, refreshVars, crawlVars>>

\* lines 368-422: the delay is over: next feed, next round, or the result
BulkDelayDone(p) ==
    /\ bpc[p] = "delay"
    /\ IF bidx[p] < Len(feedsToUpdate[p])
       THEN /\ bidx' = [bidx EXCEPT ![p] = @ + 1]
            /\ bpc' = [bpc EXCEPT ![p] = "refresh"]
            /\ UNCHANGED <<isRefreshAllMpArticlesRunning, allMps, feedsToUpdate, round,
                           currentRoundFailedFeeds, finalFailedFeeds, bresult>>
       ELSE IF Len(currentRoundFailedFeeds[p]) = 0 \/ round[p] + 1 > maxRounds
       THEN BulkExit(p, FinishedResult(allMps[p], currentRoundFailedFeeds[p]))
       ELSE /\ finalFailedFeeds' =
                  [finalFailedFeeds EXCEPT ![p] = currentRoundFailedFeeds[p]]
            /\ feedsToUpdate' = [feedsToUpdate EXCEPT ![p] = currentRoundFailedFeeds[p]]
            /\ round' = [round EXCEPT ![p] = @ + 1]
            /\ currentRoundFailedFeeds' = [currentRoundFailedFeeds EXCEPT ![p] = <<>>]
            /\ bidx' = [bidx EXCEPT ![p] = 1]
            /\ bpc' = [bpc EXCEPT ![p] = "refresh"]
            /\ UNCHANGED <<isRefreshAllMpArticlesRunning, allMps, bresult>>
    /\ UNCHANGED <<bloaded, bcalls, bfirstOk, storeVars, ledgerVars, refreshVars, crawlVars>>

\* lines 423-441: the query of the exception handler resolves or throws
BulkHandler(p, dbOk) ==
    /\ bpc[p] = "handler"
    /\ BulkExit(p, IF dbOk THEN UnexpectedResult(Cardinality(EnabledFeeds))
                   ELSE ThrownResult)
    /\ UNCHANGED <<bloaded, bcalls, bfirstOk, storeVars, ledgerVars, refreshVars, crawlVars>>

BulkStep(p) ==
    \/ \E dbOk \in BOOLEAN, mps \in Orders(EnabledFeeds) : BulkLoad(p, dbOk, mps)
    \/ \E o \in RefreshOutcomes : BulkRefreshReturn(p, o[1], o[2])
    \/ BulkDelayDone(p)
    \/ \E dbOk \in BOOLEAN : BulkHandler(p, dbOk)

\* the store of the bulk model: each feed enabled or disabled
InitBulkStore ==
    /\ accounts = [a \in AccountIds |-> ENABLE]
    /\ feeds \in [FeedIds -> [hasHistory : {1}, syncTime : {1},
                              status : {ENABLE, DISABLE}]]
    /\ articles = [id \in ArticleIds |-> NoRow]
    /\ dbType = "sqlite"
    /\ now = 1

InitRefreshAll == InitBulkStore /\ InitLedger /\ InitRefresh /\ InitHistory /\ InitBulk

NextBulk ==
    \/ \E p \in BulkProcs : RefreshAll(p)
    \/ \E p \in BulkProcs : BulkStep(p)

SpecBulk ==
    /\ InitRefreshAll
    /\ [][NextBulk]_vars
    /\ \A p \in BulkProcs : WF_vars(BulkStep(p))

(***************************************************************************)
(* Claims about getHistoryMpArticles.                                      *)
(***************************************************************************)
Running == {p \in CrawlProcs : hpc[p] # "idle"}

\* C1: at most one history crawl is in flight at any time: no two
\* invocations have both claimed the record and not yet exited.
C1_SingleFlight == Cardinality(Running) <= 1

\* C2: a start for a non-empty B while a crawl for a different A is active
\* leaves the shared record as it is: the active id never changes from one
\* source to another, and the page of the record is kept.
C2_SecondStartIsNoOp ==
    [][(inProgressHistoryMp.id \in FeedIds /\ inProgressHistoryMp'.id \in FeedIds
            /\ lastCall' \in FeedIds /\ lastCall' # inProgressHistoryMp.id)
        => inProgressHistoryMp' = inProgressHistoryMp]_vars

\* The parts of C3.  While the latest call is a stop request, (a) no loop
\* starts a page fetch, (b) once no invocation is left the record is
\* {'', 1}, and (c) if no start follows the stop, every loop terminates and
\* the record stays {'', 1}.
C3_NoFetchAfterStop ==
    [][(lastCall = "" /\ lastCall' = "")
        => \A p \in CrawlProcs : hpc'[p] = "refresh" => hpc[p] = "refresh"]_vars

C3_RecordAfterStop ==
    [](lastCall = "" /\ Running = {} => inProgressHistoryMp = IdleRecord)

C3_StopTerminates ==
    <>[](lastCall = "") => <>[](Running = {} /\ inProgressHistoryMp = IdleRecord)

\* C3: after a stop request that no start follows, the loop of A starts no
\* page fetch, terminates, and leaves the record {'', 1}.
C3_StopEndsCrawl == C3_NoFetchAfterStop /\ C3_RecordAfterStop /\ C3_StopTerminates

\* the stop request arrived during the page fetch of the crawl of A, the fetch
\* has returned and the loop of A is in its delay, about to see the mismatch
C3_Witness ==
    /\ lastCall = ""
    /\ \E p \in CrawlProcs : hpc[p] = "delay" /\ hmp[p] = "A"
    /\ inProgressHistoryMp.id = ""
    /\ inProgressHistoryMp.page = 2

(***************************************************************************)
(* Claims about refreshAllMpArticlesAndUpdateFeed.                         *)
(***************************************************************************)
BulkRunning == {p \in BulkProcs : bpc[p] # "idle"}

NoDuplicates(s) == \A j, k \in 1..Len(s) : s[j] = s[k] => j = k

\* The parts of C4: the flag and the invocations, and the call made while
\* the flag is set.
C4_FlagIffOneRun ==
    /\ isRefreshAllMpArticlesRunning <=> BulkRunning # {}
    /\ Cardinality(BulkRunning) <= 1

C4_CallWhileRunning ==
    /\ [][isRefreshAllMpArticlesRunning
            => \A p \in BulkProcs : bpc[p] = "idle" => bpc'[p] = "idle"]_vars
    /\ [][(bresult' = AlreadyRunningResult /\ bresult # AlreadyRunningResult)
            => /\ isRefreshAllMpArticlesRunning /\ isRefreshAllMpArticlesRunning'
               /\ bresult'.successCount = -1 /\ bresult'.errorCount = -1
               /\ bresult'.failedFeeds = <<>>
               /\ UNCHANGED <<storeVars, bpc, allMps, feedsToUpdate, bidx, round,
                              currentRoundFailedFeeds, bcalls>>]_vars

\* C4: the flag is true exactly while one invocation is between its claim
\* and its exit, never two; a call made while the flag is set starts no
\* invocation, returns (-1, -1, []), and changes neither the store, nor the
\* flag, nor the progress of the run that owns it.
C4_BulkFlag == []C4_FlagIffOneRun /\ C4_CallWhileRunning

\* a call was answered with the sentinel while the run that owns the flag is
\* waiting for a refresh
C4_Witness ==
    /\ bresult = AlreadyRunningResult
    /\ isRefreshAllMpArticlesRunning
    /\ \E p \in BulkProcs : bpc[p] = "refresh"

\* The exit step of an invocation leaves the flag false.
C5_ExitReleases ==
    [][\A p \in BulkProcs : (bpc[p] # "idle" /\ bpc'[p] = "idle")
            => ~isRefreshAllMpArticlesRunning']_vars

\* C5: every invocation that claimed the flag exits, the flag is false at
\* its exit whatever the exit path, and with no invocation left the flag is
\* false, so that the next call is accepted.
C5_FlagReleased ==
    /\ C5_ExitReleases
    /\ [](BulkRunning = {} => ~isRefreshAllMpArticlesRunning)
    /\ \A p \in BulkProcs : (bpc[p] # "idle") ~> (bpc[p] = "idle")

\* the invocation left through the exception of the handler's own query
C5_Witness ==
    /\ bresult = ThrownResult
    /\ BulkRunning = {}
    /\ ~isRefreshAllMpArticlesRunning

\* The parts of C6.  In round r the feeds of the round are the loaded
\* feeds with no good refresh before r, and a feed has been refreshed once
\* per round it took part in; at the end a feed has been refreshed up to
\* its first good round, or maxRounds times if it has none, and then it is
\* in failedFeeds.
C6_RoundFeeds ==
    \A p \in BulkProcs : bpc[p] \in {"refresh", "delay"} =>
        /\ round[p] \in 1..maxRounds
        /\ Range(feedsToUpdate[p]) =
              {f \in Range(bloaded) : bfirstOk[f] = 0 \/ bfirstOk[f] >= round[p]}
        /\ \A k \in 1..Len(feedsToUpdate[p]) :
              bcalls[feedsToUpdate[p][k]] =
                 IF k < bidx[p] \/ (k = bidx[p] /\ bpc[p] = "delay")
                 THEN round[p] ELSE round[p] - 1
        /\ \A f \in FeedIds \ Range(feedsToUpdate[p]) :
              bcalls[f] = bfirstOk[f]

C6_CallsAtEnd ==
    bresult.message = "finished" =>
        \A f \in FeedIds :
            /\ bcalls[f] = IF f \notin Range(bloaded) THEN 0
                           ELSE IF bfirstOk[f] # 0 THEN bfirstOk[f] ELSE maxRounds
            /\ (f \in Range(bloaded) /\ bfirstOk[f] = 0)
                  => f \in Range(bresult.failedFeeds)

\* C6: round 1 refreshes every loaded feed and round r + 1 exactly the feeds
\* whose refresh in round r had an error or no article, so that a feed is
\* refreshed k times, k its first good round or maxRounds.
C6_Rounds == C6_RoundFeeds /\ C6_CallsAtEnd

\* A had articles in round 1 and was refreshed once, B never had a good
\* refresh, was refreshed in all the rounds and is the failed feed
C6_Witness ==
    /\ bresult.message = "finished"
    /\ bcalls["A"] = 1
    /\ bcalls["B"] = maxRounds
    /\ bresult.failedFeeds = <<"B">>

\* C7: the result of a run that finished its rounds: failedFeeds is the
\* failure set of the last round (the loaded feeds with no good refresh),
\* without duplicates; errorCount is its length; successCount is the number
\* of loaded feeds minus errorCount; both are non-negative.
C7_Aggregate ==
    bresult.message = "finished" =>
        /\ Range(bresult.failedFeeds) = {f \in Range(bloaded) : bfirstOk[f] = 0}
        /\ NoDuplicates(bresult.failedFeeds)
        /\ Range(bloaded) = EnabledFeeds
        /\ bresult.errorCount = Len(bresult.failedFeeds)
        /\ bresult.successCount = Cardinality(EnabledFeeds) - bresult.errorCount
        /\ bresult.successCount >= 0
        /\ bresult.errorCount >= 0

\* a run over two feeds ended with one failed feed
C7_Witness ==
    /\ bresult.message = "finished"
    /\ bresult.errorCount = 1
    /\ bresult.successCount = 1

(***************************************************************************)
(* Claims about refreshMpArticlesAndUpdateFeed.                            *)
(***************************************************************************)
Returned == rpc = "idle" /\ rresult # NoResult

\* C8: the call never throws: whatever the account selection, the upstream
\* call and the storage did, it returns the success shape (1, 0, [],
\* hasHistory in {0, 1}, articlesCount = length of the page) or the failure
\* shape (0, 1, [mpId], hasHistory = 1, articlesCount = 0).
C8_NeverThrows ==
    Returned =>
        /\ rresult.message # "thrown"
        /\ DOMAIN rresult = {"message", "successCount", "errorCount", "failedFeeds",
                             "hasHistory", "articlesCount"}
        /\ \/ /\ rresult.successCount = 1
              /\ rresult.errorCount = 0
              /\ rresult.failedFeeds = <<>>
              /\ rresult.hasHistory \in {0, 1}
              /\ rresult.articlesCount = Len(rarticles)
              /\ rcause = "none"
           \/ /\ rresult.successCount = 0
              /\ rresult.errorCount = 1
              /\ rresult.failedFeeds = <<rmp>>
              /\ rresult.hasHistory = 1
              /\ rresult.articlesCount = 0
              /\ rcause \in {"select", "noaccount", "fetch", "write", "update"}

\* the article write threw after a page with articles had been fetched, and
\* the call returned the failure shape
C8_Witness ==
    /\ Returned
    /\ rcause = "write"
    /\ Len(rarticles) > 0
    /\ rresult.errorCount = 1

\* C9: after a successful call the stored hasHistory of the feed and the
\* returned hasHistory are 0 if and only if the page has fewer than
\* defaultCount articles, and 1 otherwise, whatever was stored before.
C9_HasHistory ==
    (Returned /\ rresult.errorCount = 0) =>
        /\ feeds[rmp].hasHistory \in {0, 1}
        /\ rresult.hasHistory \in {0, 1}
        /\ feeds[rmp].hasHistory = 0 <=> Len(rarticles) < defaultCount
        /\ rresult.hasHistory = 0 <=> Len(rarticles) < defaultCount

\* a full page set the hasHistory of a feed stored with 0 back to 1
C9_Witness ==
    /\ Returned
    /\ rresult.errorCount = 0
    /\ Len(rarticles) = defaultCount
    /\ rbefore.hasHistory = 0
    /\ feeds[rmp].hasHistory = 1

\* C10 as claimed: after every call, whatever its outcome, the syncTime of
\* the feed is the time of that call.
C10_SyncTimeAlways ==
    Returned => (rstart <= feeds[rmp].syncTime /\ feeds[rmp].syncTime <= now)

\* C10 as amended: a call that returns the success shape has set syncTime
\* to the time of the call; a call that returns the failure shape has left
\* the syncTime of the feed as it was.
C10_SyncTimeOnSuccess ==
    Returned =>
        IF rresult.errorCount = 0
        THEN rstart <= feeds[rmp].syncTime /\ feeds[rmp].syncTime <= now
        ELSE feeds[rmp].syncTime = rbefore.syncTime

\* a call made at time 2 failed in the fetch and left the syncTime of time 1
C10_Witness ==
    /\ Returned
    /\ rcause = "fetch"
    /\ rstart = 2
    /\ feeds[rmp].syncTime = 1

(***************************************************************************)
(* Claims about the article write of refreshMpArticlesAndUpdateFeed.       *)
(***************************************************************************)
\* the article write of a call that ended at `cause` was carried out
Wrote(cause) == cause \in {"none", "update"}

\* C11: a call whose page was written, followed by a call with the same
\* source id and the same page, whose write is carried out too: the second
\* call leaves the article rows (ids, title, publishTime, image, source id)
\* exactly as the first call left them, in either storage mode.
C11_Idempotent ==
    [][(rresult # NoResult /\ Wrote(rcause) /\ Wrote(rcause')
            /\ rmp' = rmp /\ rarticles' = rarticles)
        => articles' = articles]_vars

\* a one-article page was written by a call that followed the write of a
\* short page, over a row with another image: the row carries the page's
\* title and its own image (upsert mode)
C11_Witness ==
    /\ dbType = "sqlite"
    /\ Len(rarticles) = 1
    /\ rcause = "none"
    /\ rbefore.hasHistory = 0
    /\ feeds[rmp].hasHistory = 0
    /\ \A k \in 1..Len(rarticles) :
          /\ articles[rarticles[k].id] # NoRow
          /\ articles[rarticles[k].id].title = rarticles[k].title
          /\ articles[rarticles[k].id].picUrl # rarticles[k].picUrl

\* C18: after a call whose page was written, in either storage mode: an
\* article of the page whose id was stored before has the page's title and
\* publishTime and its old image and source id; an article whose id was not
\* stored has all its fields from the page.
C18_UpsertBothModes ==
    [][Wrote(rcause') =>
        \A k \in 1..Len(rarticles') :
            LET a == rarticles'[k]
            IN  IF articles[a.id] # NoRow
                THEN /\ articles'[a.id].title = a.title
                     /\ articles'[a.id].publishTime = a.publishTime
                     /\ articles'[a.id].picUrl = articles[a.id].picUrl
                     /\ articles'[a.id].mpId = articles[a.id].mpId
                ELSE articles'[a.id] =
                        [mpId |-> rmp', title |-> a.title, picUrl |-> a.picUrl,
                         publishTime |-> a.publishTime]]_vars

(***************************************************************************)
(* Claims about the accounts: getAvailableAccount, the quarantine, the      *)
(* retries of getMpArticles and the response error interceptor.            *)
(***************************************************************************)
\* today's quarantine list as stored (no list: empty)
QuarantineList ==
    IF blockedAccountsMap[today] = NoList THEN <<>> ELSE blockedAccountsMap[today]

\* the accounts that are enabled and not in the quarantine list that the
\* selection in progress read
Eligible == {a \in AccountIds : accounts[a] = ENABLE /\ a \notin Range(rdisabled)}

\* the step in which getAvailableAccount returns or throws
Selected == rpc = "select" /\ rpc' # "select"

\* the step in which the failure of an upstream request leaves the
\* interceptor and reaches the catch block of getMpArticles
AttemptFailed == rpc \in {"request", "disable", "penalty"} /\ rpc' \in {"select", "idle"}

\* C12: getAvailableAccount returns only an account that is enabled and
\* neither in the quarantine list it read nor in today's list as stored;
\* it throws 'no available account' only when no account is enabled and
\* outside the list; with such an account it returns one (unless the
\* account query itself fails).
C12_SelectAccount ==
    [][Selected =>
        /\ rpc' = "request" =>
              /\ accounts[raccount'] = ENABLE
              /\ raccount' \notin Range(rdisabled)
              /\ raccount' \notin Range(QuarantineList)
        /\ (rpc' = "idle" /\ rcause' = "noaccount") => Eligible = {}
        /\ Eligible # {} => (rpc' = "request" \/ (rpc' = "idle" /\ rcause' = "select"))
        /\ Eligible = {} => rpc' = "idle"]_vars

\* u2 was drawn while u1, enabled, is in today's list
C12_Witness ==
    /\ rpc = "request"
    /\ raccount = "u2"
    /\ accounts["u1"] = ENABLE
    /\ "u1" \in Range(QuarantineList)

\* the quarantine excludes: no selection returns an account of today's list,
\* and an account leaves the list only by removeBlockedAccount
C13_Excluded ==
    /\ [][(rpc = "select" /\ rpc' = "request")
            => raccount' \notin Range(QuarantineList)]_vars
    /\ [][(\E c \in AccountIds : c \in Range(QuarantineList) /\ c \notin Range(QuarantineList'))
            => UNCHANGED <<storeVars, refreshVars>>]_vars

\* C13 as claimed: when an upstream call with account c fails: with a list
\* for today, c is appended to it (and excluded from the selections until it
\* is released); without one, the ledger is unchanged and c remains
\* selectable.
C13_Quarantine ==
    /\ [][AttemptFailed =>
            IF blockedAccountsMap[today] # NoList
            THEN blockedAccountsMap'[today] = Append(blockedAccountsMap[today], raccount)
            ELSE /\ blockedAccountsMap' = blockedAccountsMap
                 /\ accounts'[raccount] = ENABLE
                 /\ raccount \notin Range(QuarantineList')]_vars
    /\ C13_Excluded

\* C13 as amended: with a list for today c is appended to it, unless the
\* interceptor stopped at its failed account.update; without a list the
\* ledger is unchanged and does not exclude c; c stays enabled unless the
\* failure was a WeReadError401 whose account.update set it invalid.
C13_QuarantineAmended ==
    /\ [][AttemptFailed =>
            /\ IF blockedAccountsMap[today] # NoList /\ rerr' # "storage"
               THEN blockedAccountsMap'[today] = Append(blockedAccountsMap[today], raccount)
               ELSE /\ blockedAccountsMap' = blockedAccountsMap
                    /\ raccount \notin Range(QuarantineList')
            /\ accounts'[raccount] =
                  IF rmarker = "WeReadError401" /\ rerr' # "storage"
                  THEN INVALID ELSE ENABLE]_vars
    /\ C13_Excluded

\* the first attempt has failed and the second reads a list that holds every
\* account, all enabled: the account of the first attempt was appended
C13_Witness ==
    /\ rpc = "select"
    /\ retryCount = defaultRetryCount - 1
    /\ rerr = "upstream"
    /\ Range(rdisabled) = AccountIds
    /\ \A a \in AccountIds : accounts[a] = ENABLE

\* C14: a call of getMpArticles sends at most 1 + 3 upstream requests; a
\* failed attempt is retried while fewer than 4 requests were sent, and the
\* failure of the fourth is thrown to the caller; after an attempt that
\* returned a page no further request is sent; the call ends.
C14_Retries ==
    /\ [](rattempts <= defaultRetryCount + 1)
    /\ [][AttemptFailed =>
            IF rattempts <= defaultRetryCount
            THEN rpc' = "select" /\ retryCount' = retryCount - 1
            ELSE rpc' = "idle" /\ rcause' = "fetch" /\ rerr' # "none"
                 /\ rresult' = FailureResult(rmp)]_vars
    /\ [][(rpc = "request" /\ rpc' \in {"write", "update"})
            => rattempts' = rattempts]_vars
    /\ [][(rpc \in {"write", "update"}) => rpc' \in {"write", "update", "idle"}]_vars
    /\ (rpc # "idle") ~> (rpc = "idle")

\* the call returned the failure of its fourth attempt
C14_Witness ==
    /\ rpc = "idle"
    /\ rcause = "fetch"
    /\ rerr = "upstream"
    /\ rresult.errorCount = 1

C19_NoAccountNoRetry ==
    [][(Selected /\ Eligible = {})
        => /\ rpc' = "idle"
           /\ rcause' \in {"noaccount", "select"}
           /\ rresult' = FailureResult(rmp)
           /\ rattempts' <= rattempts]_vars

\* the call sent one request, whose failure left no eligible account, and
\* returned from the selection of its second attempt, with two retries left
C19_Witness ==
    /\ rpc = "idle"
    /\ rcause = "noaccount"
    /\ rattempts = 1

\* C20: the interceptor never throws: the error that reaches the catch block
\* of getMpArticles is the failure of the upstream call, and for a
\* WeReadError401 it arrives after the account was set invalid.
C20_Resurfaces ==
    [][AttemptFailed =>
        /\ rerr' = "upstream"
        /\ rmarker = "WeReadError401" => accounts'[raccount] = INVALID]_vars

(***************************************************************************)
(* Claims about the shared record of getHistoryMpArticles.                 *)
(***************************************************************************)
\* C16: the step in which an invocation that claimed the record exits,
\* whatever its exit path, leaves the record {id: '', page: 1}.
C16_ExitResets ==
    [][\A p \in CrawlProcs : (hpc[p] # "idle" /\ hpc'[p] = "idle")
            => inProgressHistoryMp' = IdleRecord]_vars

\* the crawl of A fetched full pages until its iteration budget ran out and
\* has exited
C16_Witness ==
    /\ lastCall = "A"
    /\ Running = {}
    /\ inProgressHistoryMp = IdleRecord
    /\ feeds["A"].hasHistory = 1
    /\ CountArticles(articles, "A") = defaultCount

\* C17 as claimed: the id of the record is non-empty if and only if some
\* invocation has claimed the record and not exited, and then it is the id of
\* such an invocation.
C17_IdIffRunning ==
    /\ inProgressHistoryMp.id # "" <=> Running # {}
    /\ inProgressHistoryMp.id # ""
          => \E p \in Running : hmp[p] = inProgressHistoryMp.id

\* C17 as amended: the id of the record is non-empty only while an
\* invocation for that id has claimed the record and not exited; it is empty
\* whenever no invocation is running.
C17_IdOnlyWhileRunning ==
    /\ inProgressHistoryMp.id # ""
          => \E p \in Running : hmp[p] = inProgressHistoryMp.id
    /\ Running = {} => inProgressHistoryMp.id = ""

\* the stop request has emptied the id while the crawl of A waits for its
\* page
C17_Witness ==
    /\ lastCall = ""
    /\ inProgressHistoryMp.id = ""
    /\ \E p \in Running : hmp[p] = "A" /\ hpc[p] = "refresh"

(***************************************************************************)
(* The crawl loop: what ends it, and the pages it asks for.                *)
(***************************************************************************)
\* the crawl invocation p gets the result of a refresh in this step
Returns(p) == hpc[p] = "refresh" /\ hpc'[p] # "refresh"

\* the crawl invocation p starts a refresh in this step
Fetches(p) == hpc[p] # "refresh" /\ hpc'[p] = "refresh"

\* C21: a crawl stops fetching on a refresh result exactly when a successful
\* short page set has_history to 0; on any other result, a failure-shaped
\* one included, it increments the record's page and goes on, and after the
\* delay that follows a failure it asks for the next page, never again for
\* the page that failed.
C21_ShortPageEnds ==
    [][\A p \in CrawlProcs :
        /\ (Returns(p) /\ hpc'[p] = "idle") =>
               hexit' = "short" /\ feeds'[hmp[p]].hasHistory = 0
        /\ (Returns(p) /\ hpc'[p] # "idle") =>
               /\ hpc'[p] = "delay"
               /\ hfail'[p] \/ feeds'[hmp[p]].hasHistory = 1
               /\ inProgressHistoryMp'.page = inProgressHistoryMp.page + 1
        /\ (hpc[p] = "delay" /\ hfail[p] /\ Fetches(p)) =>
               hpage'[p] = hpage[p] + 1]_vars

\* no other invocation is alive and the record still names the crawl of p
Undisturbed(p) == Running = {p} /\ inProgressHistoryMp.id = hmp[p]

\* the first fetch of a crawl asks for page ceil(n / defaultCount), n being
\* the articles stored for the source; while no other invocation is alive,
\* each later fetch asks for the page after the one before
AscendingPages ==
    [][\A p \in CrawlProcs :
        /\ (hpc[p] = "count" /\ Fetches(p)) =>
               LET n == CountArticles(articles, hmp[p])
               IN  /\ hpage'[p] * defaultCount >= n
                   /\ (hpage'[p] - 1) * defaultCount < n
        /\ (hpc[p] = "delay" /\ Running = {p} /\ Fetches(p)) =>
               hpage'[p] = hpage[p] + 1]_vars

\* the record of an undisturbed crawl holds the page of the fetch in flight
\* and, during the delay, the page of the next fetch
RecordFollowsFetch ==
    \A p \in CrawlProcs :
        Undisturbed(p) =>
            /\ hpc[p] = "refresh" => inProgressHistoryMp.page = hpage[p]
            /\ hpc[p] = "delay" => inProgressHistoryMp.page = hpage[p] + 1

\* C22 as stated: an undisturbed crawl starts at page ceil(n / defaultCount),
\* asks for consecutive ascending pages, and the page of the shared record
\* always equals the page of the fetch in progress or about to be made, so
\* already before the first fetch.
C22_RecordAlwaysFetchPage ==
    /\ AscendingPages
    /\ []RecordFollowsFetch
    /\ [](\A p \in CrawlProcs :
            (Undisturbed(p) /\ hpc[p] \in {"findFeed", "count"}) =>
                LET n == CountArticles(articles, hmp[p])
                IN  /\ inProgressHistoryMp.page * defaultCount >= n
                    /\ (inProgressHistoryMp.page - 1) * defaultCount < n)

\* C22 amended: an undisturbed crawl starts at page ceil(n / defaultCount),
\* asks for consecutive ascending pages, and from its first fetch on the
\* page of the shared record equals the page of the fetch in progress or
\* about to be made.
C22_RecordFollowsFetch == AscendingPages /\ []RecordFollowsFetch

\* an undisturbed crawl of a source with stored articles is at its second
\* fetch: page 2 after page 1
C22_Witness ==
    \E p \in CrawlProcs :
        /\ Undisturbed(p)
        /\ hpc[p] = "refresh"
        /\ hcalls[p] = 2
        /\ hpage[p] = 2
        /\ inProgressHistoryMp.page = 2

\* C23: a crawl makes at most MaxCrawlIterations (1000 in the code) refresh
\* calls, and every crawl invocation ends, whether or not a stop request or
\* a short page ever comes.
C23_Terminates ==
    /\ [](\A p \in CrawlProcs : hcalls[p] <= MaxCrawlIterations)
    /\ \A p \in CrawlProcs : []<>(hpc[p] = "idle")

\* a crawl has just ended because its loop counter ran out
C23_Witness == hexit = "budget" /\ Running = {} /\ lastCall \in FeedIds

\* C24: a start request for the id the record already holds returns at
\* once: the record keeps its id and its page, no invocation starts (so no
\* lookup, no count, no fetch for that id), and the store is not touched.
C24_SameIdIsNoOp ==
    [][/\ lastSame' =>
            UNCHANGED <<inProgressHistoryMp, hpc, hmp, hi, hpage, hcalls,
                        storeVars>>
       /\ \A p \in CrawlProcs :
            (hpc[p] = "idle" /\ hpc'[p] # "idle") =>
                inProgressHistoryMp.id # hmp'[p]]_vars

\* a second start for the crawl in progress has just returned: the record
\* still holds page 2
C24_Witness ==
    /\ lastSame
    /\ inProgressHistoryMp = [id |-> "A", page |-> 2]
    /\ \E p \in CrawlProcs : Running = {p} /\ hmp[p] = "A" /\ hpc[p] = "delay"

\* C25: a crawl started for a source whose stored has_history is 0 ends at
\* the lookup: it makes no refresh call, leaves the articles and the feed
\* rows as they are, and releases the slot; a crawl goes on to its fetches
\* only for a source whose has_history was 1 at the lookup.
C25_NoHistoryNoFetch ==
    [][\A p \in CrawlProcs :
        (hpc[p] = "findFeed" /\ hpc'[p] # "findFeed" /\ hmp[p] \in FeedIds) =>
            IF feeds[hmp[p]].hasHistory = 0
            THEN /\ hpc'[p] = "idle"
                 /\ hcalls'[p] = 0
                 /\ inProgressHistoryMp' = IdleRecord
                 /\ UNCHANGED storeVars
            ELSE hpc'[p] = "idle" \/ feeds[hmp[p]].hasHistory = 1]_vars

\* a start for a source whose history is complete has just returned
C25_Witness ==
    /\ hexit = "nohistory"
    /\ lastCall = "A"
    /\ feeds["A"].hasHistory = 0
    /\ Running = {}
    /\ inProgressHistoryMp = IdleRecord

(***************************************************************************)
(* The quarantine of a process started with an empty ledger.               *)
(***************************************************************************)
\* C26: from the empty ledger of a new process no day ever gets a list,
\* whatever the refreshes, their failures and the releases do: the list of
\* quarantined accounts reads as empty, the selection reads it as empty,
\* and 'no available account' is thrown only when no account is enabled.
C26_LedgerStaysEmpty ==
    /\ [](/\ \A d \in Days : blockedAccountsMap[d] = NoList
          /\ (IF blockedAccountsMap[today] = NoList
              THEN <<>> ELSE blockedAccountsMap[today]) = <<>>
          /\ rdisabled = <<>>)
    /\ [][(Selected /\ rpc' = "idle" /\ rcause' = "noaccount") =>
            \A a \in AccountIds : accounts[a] # ENABLE]_vars

\* a refresh has given up after upstream failures, one of them an expired
\* login that invalidated an account, and today still has no list
C26_Witness ==
    /\ rpc = "idle"
    /\ rcause = "fetch"
    /\ \E a \in AccountIds : accounts[a] = INVALID
    /\ blockedAccountsMap[today] = NoList

(***************************************************************************)
(* The shared record under stop requests and restarts.                     *)
(***************************************************************************)
\* C27: a stop request is never lost, not even when the same id is started
\* again before the stopped loop looks at the record, so that no two
\* invocations ever crawl the same id at the same time.
C27_OneLoopPerId ==
    \A p, q \in Running : p # q => hmp[p] # hmp[q]

\* C28: a record with an empty id always has page 1, also between a stop
\* request that arrives during a fetch and the exit of the stopped loop.
C28_EmptyIdPageOne ==
    inProgressHistoryMp.id = "" => inProgressHistoryMp.page = 1

\* C29: every page passed to a refresh and every page stored in the record
\* is at least 1, also for a source with no stored article.
C29_PagesFromOne ==
    /\ inProgressHistoryMp.page >= 1
    /\ \A p \in CrawlProcs : hpc[p] = "refresh" => hpage[p] >= 1

(***************************************************************************)
(* The counts of a bulk refresh result.                                    *)
(***************************************************************************)
\* C30: in every result of a bulk refresh other than the 'already running'
\* one, the result after an unexpected exception included, errorCount is
\* the length of failedFeeds and successCount + errorCount is the number of
\* enabled feeds.
C30_CountsAgree ==
    bresult.message \in {"nofeeds", "finished", "unexpected"} =>
        /\ bresult.errorCount = Len(bresult.failedFeeds)
        /\ bresult.successCount + bresult.errorCount = Cardinality(EnabledFeeds)

=============================================================================
